---- MODULE Spec2Model ----
(***************************************************************************)
(* Model of alphavantage_server.py: the MCP tool catalog                   *)
(* (handle_list_tools), the dispatch ladder of handle_call_tool, the URL   *)
(* each branch builds, and the normalisation of the upstream outcome done  *)
(* by the nested helper make_api_request.                                  *)
(*                                                                         *)
(* URLs, error messages and the serialised result are modelled as strings, *)
(* built by the same concatenations as the f-strings of the source.        *)
(* Python values (argument values) and JSON values (upstream payloads) are *)
(* tagged records of one shape each, so that any two of them compare.      *)
(***************************************************************************)
EXTENDS Integers, Sequences, FiniteSets, TLC

VARIABLES
    API_KEY,   \* module global read at import time (line 14)
    calls      \* one record per handle_call_tool coroutine

vars == <<API_KEY, calls>>

(***************************************************************************)
(* Bounds                                                                  *)
(***************************************************************************)
MaxKeys == 3     \* most top-level keys of an upstream JSON object
MaxCalls == 2    \* coroutines in flight at once in SpecConc

(***************************************************************************)
(* Python values of an argument bag                                        *)
(***************************************************************************)
PStr(s) == [t |-> "str", s |-> s, n |-> 0]
PInt(n) == [t |-> "int", s |-> "", n |-> n]
PNone == [t |-> "NoneType", s |-> "", n |-> 0]

Digit(d) == SubSeq("0123456789", d + 1, d + 1)

RECURSIVE NatToStr(_)
NatToStr(n) == IF n < 10 THEN Digit(n) ELSE NatToStr(n \div 10) \o Digit(n % 10)

\* str(int)
IntToStr(n) == IF n < 0 THEN "-" \o NatToStr(0 - n) ELSE NatToStr(n)

\* what an f-string replacement field {v} renders
Format(v) ==
    CASE v.t = "str" -> v.s
      [] v.t = "int" -> IntToStr(v.n)
      [] OTHER -> "None"

\* truth value of `if v:`
Truthy(v) ==
    CASE v.t = "str" -> v.s # ""
      [] v.t = "int" -> v.n # 0
      [] OTHER -> FALSE

\* arguments.get(key, default)
Get(arguments, key, default) ==
    IF key \in DOMAIN arguments THEN arguments[key] ELSE default

(***************************************************************************)
(* JSON values: what response.json() returns and json.dumps serialises     *)
(***************************************************************************)
JStr(s) == [t |-> "string", s |-> s, items |-> <<>>]
JNum(s) == [t |-> "number", s |-> s, items |-> <<>>]
JObj(items) == [t |-> "object", s |-> "", items |-> items]
JArr(items) == [t |-> "array", s |-> "", items |-> items]
Member(k, v) == [k |-> k, v |-> v]

IsSubstring(sub, s) ==
    \E i \in 1..(Len(s) - Len(sub) + 1) : SubSeq(s, i, i + Len(sub) - 1) = sub

HasKey(d, key) ==
    d.t = "object" /\ \E i \in 1..Len(d.items) : d.items[i].k = key

Lookup(d, key) ==
    d.items[CHOOSE i \in 1..Len(d.items) : d.items[i].k = key].v

\* `key in data` raises TypeError unless data is a dict, a list or a str
InRaises(d) == d.t \notin {"object", "array", "string"}

\* `key in data` for a dict (key), a list (element) and a str (substring)
In(key, d) ==
    CASE d.t = "object" -> HasKey(d, key)
      [] d.t = "array" -> \E i \in 1..Len(d.items) : d.items[i].v = JStr(key)
      [] d.t = "string" -> IsSubstring(key, d.s)
      [] OTHER -> FALSE

\* data['key'] raises TypeError on a list or a str
GetItemRaises(d) == d.t # "object"

Indent(level) == SubSeq("                ", 1, 2 * level)

RECURSIVE json_dumps_at(_, _), json_dumps_items(_, _, _, _)
\* json.dumps(v, indent=2) at nesting depth `level`
json_dumps_at(v, level) ==
    CASE v.t = "string" -> "\"" \o v.s \o "\""
      [] v.t = "number" -> v.s
      [] v.t = "object" ->
            IF v.items = <<>> THEN "{}"
            ELSE "{\n" \o json_dumps_items(v.items, 1, level + 1, TRUE)
                       \o "\n" \o Indent(level) \o "}"
      [] v.t = "array" ->
            IF v.items = <<>> THEN "[]"
            ELSE "[\n" \o json_dumps_items(v.items, 1, level + 1, FALSE)
                       \o "\n" \o Indent(level) \o "]"
      [] OTHER -> "null"
json_dumps_items(items, i, level, keyed) ==
    LET one == Indent(level)
               \o (IF keyed THEN "\"" \o items[i].k \o "\": " ELSE "")
               \o json_dumps_at(items[i].v, level)
    IN IF i = Len(items) THEN one
       ELSE one \o ",\n" \o json_dumps_items(items, i + 1, level, keyed)

json_dumps(v) == json_dumps_at(v, 0)

\* types.TextContent(type="text", text=json.dumps(data, indent=2))
TextContent(data) == [type |-> "text", text |-> json_dumps(data)]

(***************************************************************************)
(* The tool catalog                                                        *)
(***************************************************************************)
Tool(name, properties, required) ==
    [name |-> name, properties |-> properties, required |-> required]

\* the list handle_list_tools returns, in its order
handle_list_tools ==
    << Tool("get_stock_quote", {"symbol"}, {"symbol"}),
       Tool("get_daily_prices", {"symbol"}, {"symbol"}),
       Tool("get_income_statement", {"symbol"}, {"symbol"}),
       Tool("get_balance_sheet", {"symbol"}, {"symbol"}),
       Tool("get_cash_flow", {"symbol"}, {"symbol"}),
       Tool("get_company_overview", {"symbol"}, {"symbol"}),
       Tool("get_news_sentiment", {"tickers", "topics", "limit"}, {}),
       Tool("get_earnings", {"symbol"}, {"symbol"}) >>

CatalogNames == {handle_list_tools[i].name : i \in 1..Len(handle_list_tools)}

\* the schema's `required` list of a cataloged name
RequiredOf(name) ==
    (CHOOSE tool \in {handle_list_tools[i] : i \in 1..Len(handle_list_tools)} :
        tool.name = name).required

(***************************************************************************)
(* handle_call_tool: the dispatch ladder and the URL of each branch        *)
(***************************************************************************)
\* the ladder without its last elif
Branches_no_earnings ==
    << "get_stock_quote", "get_daily_prices", "get_income_statement",
       "get_balance_sheet", "get_cash_flow", "get_company_overview",
       "get_news_sentiment" >>

\* the names the if/elif ladder compares `name` with, in its order
Branches ==
    << "get_stock_quote", "get_daily_prices", "get_income_statement",
       "get_balance_sheet", "get_cash_flow", "get_company_overview",
       "get_news_sentiment", "get_earnings" >>

IsBranch(name) == \E i \in 1..Len(Branches) : Branches[i] = name

\* the news url with tickers appended without the `if tickers:` test
NewsUrl_always_tickers(arguments, key) ==
    LET tickers == Get(arguments, "tickers", PStr(""))
        topics == Get(arguments, "topics", PStr(""))
        limit == Get(arguments, "limit", PInt(50))
        url0 == "https://www.alphavantage.co/query?function=NEWS_SENTIMENT&apikey="
                    \o key \o "&limit=" \o Format(limit)
        url1 == url0 \o "&tickers=" \o Format(tickers)
    IN IF Truthy(topics) THEN url1 \o "&topics=" \o Format(topics) ELSE url1

\* the news url with limit appended after the optional parameters
NewsUrl_limit_last(arguments, key) ==
    LET tickers == Get(arguments, "tickers", PStr(""))
        topics == Get(arguments, "topics", PStr(""))
        limit == Get(arguments, "limit", PInt(50))
        url0 == "https://www.alphavantage.co/query?function=NEWS_SENTIMENT&apikey="
                    \o key
        url1 == IF Truthy(tickers) THEN url0 \o "&tickers=" \o Format(tickers) ELSE url0
        url2 == IF Truthy(topics) THEN url1 \o "&topics=" \o Format(topics) ELSE url1
    IN url2 \o "&limit=" \o Format(limit)

\* url of the get_news_sentiment branch
NewsUrl(arguments, key) ==
    LET tickers == Get(arguments, "tickers", PStr(""))
        topics == Get(arguments, "topics", PStr(""))
        limit == Get(arguments, "limit", PInt(50))
        url0 == "https://www.alphavantage.co/query?function=NEWS_SENTIMENT&apikey="
                    \o key \o "&limit=" \o Format(limit)
        url1 == IF Truthy(tickers) THEN url0 \o "&tickers=" \o Format(tickers) ELSE url0
    IN IF Truthy(topics) THEN url1 \o "&topics=" \o Format(topics) ELSE url1

\* url built by the branch of the ladder that `name` selects
BuildUrl(name, arguments, key) ==
    LET symbol == Get(arguments, "symbol", PNone) IN
    CASE name = "get_stock_quote" ->
            "https://www.alphavantage.co/query?function=GLOBAL_QUOTE&symbol="
                \o Format(symbol) \o "&apikey=" \o key
      [] name = "get_daily_prices" ->
            "https://www.alphavantage.co/query?function=TIME_SERIES_DAILY&symbol="
                \o Format(symbol) \o "&apikey=" \o key
      [] name = "get_income_statement" ->
            "https://www.alphavantage.co/query?function=INCOME_STATEMENT&symbol="
                \o Format(symbol) \o "&apikey=" \o key
      [] name = "get_balance_sheet" ->
            "https://www.alphavantage.co/query?function=BALANCE_SHEET&symbol="
                \o Format(symbol) \o "&apikey=" \o key
      [] name = "get_cash_flow" ->
            "https://www.alphavantage.co/query?function=CASH_FLOW&symbol="
                \o Format(symbol) \o "&apikey=" \o key
      [] name = "get_company_overview" ->
            "https://www.alphavantage.co/query?function=OVERVIEW&symbol="
                \o Format(symbol) \o "&apikey=" \o key
      [] name = "get_news_sentiment" -> NewsUrl(arguments, key)
      [] name = "get_earnings" ->
            "https://www.alphavantage.co/query?function=EARNINGS&symbol="
                \o Format(symbol) \o "&apikey=" \o key

(***************************************************************************)
(* make_api_request: the outcome of the GET and its normalisation          *)
(***************************************************************************)
\* an outcome of `await client.get(url)` followed by response.json():
\*   kind "timeout"  - httpx.TimeoutException
\*   kind "fault"    - any other exception, str(e) = description
\*   kind "response" - a response with status_code; parses says whether
\*                     response.json() returns (json) or raises (description)
Outcome(kind, status_code, parses, description, json) ==
    [kind |-> kind, status_code |-> status_code, parses |-> parses,
     description |-> description, json |-> json]

JNull == [t |-> "null", s |-> "", items |-> <<>>]

Error(message) == JObj(<< Member("error", JStr(message)) >>)

\* response.raise_for_status() returns normally
is_success(status_code) == 200 <= status_code /\ status_code <= 299

\* f"{v}" of a sentinel's value
FormatJson(v) ==
    CASE v.t \in {"string", "number"} -> v.s
      [] v.t = "null" -> "None"

NotIterable(d) ==
    "argument of type '" \o (IF d.t = "null" THEN "NoneType" ELSE "int")
        \o "' is not iterable"

BadIndex(d) ==
    IF d.t = "array" THEN "list indices must be integers or slices, not str"
    ELSE "string indices must be integers, not 'str'"

\* the sentinel checks with the accepted payload wrapped under `data`
check_api_errors_wrapped(data) ==
    IF InRaises(data) THEN Error("Request failed: " \o NotIterable(data))
    ELSE IF In("Error Message", data) THEN
        IF GetItemRaises(data) THEN Error("Request failed: " \o BadIndex(data))
        ELSE Error("API Error: " \o FormatJson(Lookup(data, "Error Message")))
    ELSE IF In("Note", data) THEN
        IF GetItemRaises(data) THEN Error("Request failed: " \o BadIndex(data))
        ELSE Error("API Limit: " \o FormatJson(Lookup(data, "Note")))
    ELSE IF In("Information", data) THEN
        IF GetItemRaises(data) THEN Error("Request failed: " \o BadIndex(data))
        ELSE Error("API Info: " \o FormatJson(Lookup(data, "Information")))
    ELSE JObj(<< Member("data", data) >>)

\* the sentinel checks with "Note" tested before "Error Message"
check_api_errors_note_first(data) ==
    IF InRaises(data) THEN Error("Request failed: " \o NotIterable(data))
    ELSE IF In("Note", data) THEN
        IF GetItemRaises(data) THEN Error("Request failed: " \o BadIndex(data))
        ELSE Error("API Limit: " \o FormatJson(Lookup(data, "Note")))
    ELSE IF In("Error Message", data) THEN
        IF GetItemRaises(data) THEN Error("Request failed: " \o BadIndex(data))
        ELSE Error("API Error: " \o FormatJson(Lookup(data, "Error Message")))
    ELSE IF In("Information", data) THEN
        IF GetItemRaises(data) THEN Error("Request failed: " \o BadIndex(data))
        ELSE Error("API Info: " \o FormatJson(Lookup(data, "Information")))
    ELSE data

\* the sentinel checks on the parsed payload, with the TypeErrors they can
\* raise caught by the last except clause
check_api_errors(data) ==
    IF InRaises(data) THEN Error("Request failed: " \o NotIterable(data))
    ELSE IF In("Error Message", data) THEN
        IF GetItemRaises(data) THEN Error("Request failed: " \o BadIndex(data))
        ELSE Error("API Error: " \o FormatJson(Lookup(data, "Error Message")))
    ELSE IF In("Note", data) THEN
        IF GetItemRaises(data) THEN Error("Request failed: " \o BadIndex(data))
        ELSE Error("API Limit: " \o FormatJson(Lookup(data, "Note")))
    ELSE IF In("Information", data) THEN
        IF GetItemRaises(data) THEN Error("Request failed: " \o BadIndex(data))
        ELSE Error("API Info: " \o FormatJson(Lookup(data, "Information")))
    ELSE data

\* make_api_request whose timeout clause also sets `data`
make_api_request_both(r) ==
    IF r.kind = "timeout"
        THEN JObj(<< Member("error", JStr("Request timed out")),
                     Member("data", JNull) >>)
    ELSE IF r.kind = "fault" THEN Error("Request failed: " \o r.description)
    ELSE IF ~is_success(r.status_code)
        THEN Error("HTTP error: " \o IntToStr(r.status_code))
    ELSE IF ~r.parses THEN Error("Request failed: " \o r.description)
    ELSE check_api_errors(r.json)

\* make_api_request without the `except httpx.HTTPStatusError` clause
make_api_request_no_status(r) ==
    IF r.kind = "timeout" THEN Error("Request timed out")
    ELSE IF r.kind = "fault" THEN Error("Request failed: " \o r.description)
    ELSE IF ~is_success(r.status_code)
        THEN Error("Request failed: status " \o IntToStr(r.status_code))
    ELSE IF ~r.parses THEN Error("Request failed: " \o r.description)
    ELSE check_api_errors(r.json)

\* value make_api_request returns when the GET ends with outcome r
make_api_request(r) ==
    IF r.kind = "timeout" THEN Error("Request timed out")
    ELSE IF r.kind = "fault" THEN Error("Request failed: " \o r.description)
    ELSE IF ~is_success(r.status_code)
        THEN Error("HTTP error: " \o IntToStr(r.status_code))
    ELSE IF ~r.parses THEN Error("Request failed: " \o r.description)
    ELSE check_api_errors(r.json)

(***************************************************************************)
(* Inputs: tool names, argument bags, credentials, upstream outcomes       *)
(***************************************************************************)
Names == CatalogNames \cup {"not_a_real_tool", "GET_EARNINGS"}

ArgKeys == {"symbol", "tickers", "topics", "limit"}

ArgValues(key) ==
    CASE key = "symbol" -> {PStr("AAPL")}
      [] key = "tickers" -> {PStr(""), PStr("AAPL,MSFT")}
      [] key = "topics" -> {PStr(""), PStr("earnings")}
      [] key = "limit" -> {PInt(10), PInt(1000)}

\* every bag: a function from some of the keys to a value of each
Bags ==
    UNION { { bag \in [S -> UNION {ArgValues(k) : k \in ArgKeys}] :
                \A k \in S : bag[k] \in ArgValues(k) } : S \in SUBSET ArgKeys }

Credentials == {"demo", "K2"}

PayloadKeys == {"Error Message", "Note", "Information", "Global Quote", "data", "error"}

SentinelKeys == {"Error Message", "Note", "Information"}

ValueOf(key) ==
    CASE key = "Error Message" -> JStr("Invalid API call")
      [] key = "Note" -> JStr("Thank you for using Alpha Vantage!")
      [] key = "Information" -> JStr("the demo API key")
      [] key = "Global Quote" ->
            JObj(<< Member("01. symbol", JStr("AAPL")),
                    Member("05. price", JStr("150.00")) >>)
      [] key = "data" -> JArr(<< Member("", JNum("1")) >>)
      [] key = "error" -> JStr("upstream")

\* JSON objects with up to MaxKeys distinct top-level keys, in every order
ObjectPayloads ==
    UNION { { JObj([i \in 1..n |-> Member(ks[i], ValueOf(ks[i]))]) :
                ks \in { q \in [1..n -> PayloadKeys] :
                            \A i, j \in 1..n : i # j => q[i] # q[j] } } :
            n \in 0..MaxKeys }

\* JSON bodies that are not objects
OtherPayloads ==
    { JArr(<<>>), JArr(<< Member("", JStr("Note")) >>), JNum("42"), JNull,
      JStr("ok"), JStr("Information") }

Payloads == ObjectPayloads \cup OtherPayloads

Timeout == Outcome("timeout", 0, FALSE, "", JNull)

Outcomes ==
    {Timeout}
    \cup {Outcome("fault", 0, FALSE, "All connection attempts failed", JNull)}
    \cup {Outcome("response", sc, FALSE, "", JNull) : sc \in {301, 404, 500}}
    \cup {Outcome("response", sc, FALSE,
                  "Expecting value: line 1 column 1 (char 0)", JNull) :
            sc \in {200, 204}}
    \cup {Outcome("response", 200, TRUE, "", p) : p \in Payloads}

(***************************************************************************)
(* The coroutines                                                          *)
(***************************************************************************)
Idle ==
    [pc |-> "idle", name |-> "", arguments |-> <<>>, url |-> "",
     requests |-> <<>>, reply |-> Timeout, data |-> JNull, result |-> <<>>,
     raised |-> ""]

\* handle_call_tool(name, arguments) runs up to `await client.get(url)`, or
\* to the raise of the else branch
Invoke(c, name, arguments) ==
    /\ calls[c].pc = "idle"
    /\ IF IsBranch(name)
       THEN LET url == BuildUrl(name, arguments, API_KEY) IN
            calls' = [calls EXCEPT ![c] =
                        [@ EXCEPT !.pc = "awaiting", !.name = name,
                                  !.arguments = arguments, !.url = url,
                                  !.requests = Append(@, url)]]
       ELSE calls' = [calls EXCEPT ![c] =
                        [@ EXCEPT !.pc = "raised", !.name = name,
                                  !.arguments = arguments,
                                  !.raised = "Unknown tool: " \o name]]
    /\ UNCHANGED API_KEY

\* Complete with a second GET after a timeout
Complete_retry(c, r) ==
    /\ calls[c].pc = "awaiting"
    /\ LET data == make_api_request(r) IN
       calls' = [calls EXCEPT ![c] =
                    [@ EXCEPT !.pc = "done", !.reply = r, !.data = data,
                              !.result = << TextContent(data) >>,
                              !.requests = IF r.kind = "timeout"
                                           THEN Append(@, calls[c].url) ELSE @]]
    /\ UNCHANGED API_KEY

\* Complete with the response held in one place for all coroutines: a call
\* that finishes while another has finished reads that other call's reply
Complete_shared(c, r) ==
    /\ calls[c].pc = "awaiting"
    /\ \E d \in DOMAIN calls :
        LET seen == IF calls[d].pc = "done" THEN calls[d].reply ELSE r
            data == make_api_request(seen)
        IN calls' = [calls EXCEPT ![c] =
                        [@ EXCEPT !.pc = "done", !.reply = r, !.data = data,
                                  !.result = << TextContent(data) >>]]
    /\ UNCHANGED API_KEY

\* the GET of coroutine c ends with outcome r; the coroutine runs to its return
Complete(c, r) ==
    /\ calls[c].pc = "awaiting"
    /\ LET data == make_api_request(r) IN
       calls' = [calls EXCEPT ![c] =
                    [@ EXCEPT !.pc = "done", !.reply = r, !.data = data,
                              !.result = << TextContent(data) >>]]
    /\ UNCHANGED API_KEY

\* the host has taken the result or the exception; the slot serves a new call
Return(c) ==
    /\ calls[c].pc \in {"done", "raised"}
    /\ calls' = [calls EXCEPT ![c] = Idle]
    /\ UNCHANGED API_KEY

\* one call at a time, every input
Init ==
    /\ API_KEY \in Credentials
    /\ calls = [c \in 1..1 |-> Idle]

Next ==
    \E c \in DOMAIN calls :
        \/ \E name \in Names, arguments \in Bags : Invoke(c, name, arguments)
        \/ \E r \in Outcomes : Complete(c, r)
        \/ Return(c)

Spec == Init /\ [][Next]_vars

(***************************************************************************)
(* Several calls in flight, few inputs                                     *)
(***************************************************************************)
ConcNames == {"get_stock_quote", "get_news_sentiment", "not_a_real_tool"}

ConcBags ==
    { <<>>, [symbol |-> PStr("AAPL")],
      [tickers |-> PStr("AAPL,MSFT"), limit |-> PInt(10)] }

ConcOutcomes ==
    { Timeout,
      Outcome("response", 500, FALSE, "", JNull),
      Outcome("response", 200, TRUE, "",
              JObj(<< Member("Note", ValueOf("Note")) >>)),
      Outcome("response", 200, TRUE, "",
              JObj(<< Member("Global Quote", ValueOf("Global Quote")) >>)) }

InitConc ==
    /\ API_KEY \in Credentials
    /\ calls = [c \in 1..MaxCalls |-> Idle]

NextConc ==
    \E c \in DOMAIN calls :
        \/ \E name \in ConcNames, arguments \in ConcBags : Invoke(c, name, arguments)
        \/ \E r \in ConcOutcomes : Complete(c, r)
        \/ Return(c)

SpecConc == InitConc /\ [][NextConc]_vars

(***************************************************************************)
(* Reading a request and a result                                          *)
(***************************************************************************)
\* the positions of url where the query parameter `key` starts: a "?" or
\* "&", then the key, then "="
ParamStarts(url, key) ==
    { i \in 1..(Len(url) - Len(key) - 1) :
        SubSeq(url, i, i + Len(key) + 1) \in {"?" \o key \o "=", "&" \o key \o "="} }

HasParam(url, key) == ParamStarts(url, key) # {}

\* the parameter that starts at i has the value v: v follows the "=", and
\* then the url ends or the next parameter starts
ValueAt(url, key, i, v) ==
    LET from == i + Len(key) + 2
        to == from + Len(v) - 1
    IN /\ to <= Len(url)
       /\ SubSeq(url, from, to) = v
       /\ to = Len(url) \/ SubSeq(url, to + 1, to + 1) = "&"

\* the url gives `key` once, with value v
ParamIs(url, key, v) ==
    /\ Cardinality(ParamStarts(url, key)) = 1
    /\ \A i \in ParamStarts(url, key) : ValueAt(url, key, i, v)

Issued(c) == calls[c].pc \in {"awaiting", "done"}

Done(c) == calls[c].pc = "done"

\* an envelope whose only top-level key is `error`, with a string message
IsErrorEnvelope(d) ==
    /\ d.t = "object"
    /\ Len(d.items) = 1
    /\ d.items[1].k = "error"
    /\ d.items[1].v.t = "string"

\* the GET of a finished call returned a success status and a JSON body
Parsed(c) ==
    /\ calls[c].reply.kind = "response"
    /\ is_success(calls[c].reply.status_code)
    /\ calls[c].reply.parses

\* the result is one text block that serialises the value `data`
Serialises(c) ==
    /\ Len(calls[c].result) = 1
    /\ calls[c].result[1].type = "text"
    /\ calls[c].result[1].text = json_dumps(calls[c].data)

(***************************************************************************)
(* Claims                                                                  *)
(***************************************************************************)

\* C1 (as stated): the result of every finished call of a cataloged operation
\* is an envelope with exactly one of the top-level keys `data` and `error`.
C1_ExactlyOneOfDataOrError ==
    \A c \in DOMAIN calls :
        Done(c) =>
            /\ Serialises(c)
            /\ HasKey(calls[c].data, "data") # HasKey(calls[c].data, "error")

\* C1 (amended): the result of every finished call is either an envelope whose
\* only top-level key is `error`, or the parsed upstream payload itself; no
\* `data` key is added, so the result has a key `data` only when the upstream
\* payload has one.
C1_ErrorOrBarePayload ==
    \A c \in DOMAIN calls :
        Done(c) =>
            /\ Serialises(c)
            /\ \/ IsErrorEnvelope(calls[c].data)
               \/ Parsed(c) /\ calls[c].data = calls[c].reply.json
            /\ HasKey(calls[c].data, "data") =>
                    Parsed(c) /\ HasKey(calls[c].reply.json, "data")

\* a finished call whose result has neither `data` nor `error`
C1_Witness ==
    \E c \in DOMAIN calls :
        /\ Done(c) /\ Parsed(c)
        /\ calls[c].data = calls[c].reply.json
        /\ ~HasKey(calls[c].data, "data")
        /\ ~HasKey(calls[c].data, "error")

\* the payload of a finished call is a JSON object without sentinel keys
PlainObject(c) ==
    /\ Parsed(c)
    /\ calls[c].reply.json.t = "object"
    /\ \A k \in SentinelKeys : ~HasKey(calls[c].reply.json, k)

\* C2 (as stated): when the GET succeeds and the payload P has no sentinel
\* key, the result is the envelope {data: P}.
C2_WrappedAsData ==
    \A c \in DOMAIN calls :
        Done(c) /\ PlainObject(c) =>
            calls[c].data = JObj(<< Member("data", calls[c].reply.json) >>)

\* C2 (amended): when the GET succeeds and the payload P is a JSON object
\* with no sentinel key, the result is P itself, unchanged and not wrapped
\* under any key, serialised as one text block.
C2_PayloadVerbatim ==
    \A c \in DOMAIN calls :
        Done(c) /\ PlainObject(c) =>
            /\ calls[c].data = calls[c].reply.json
            /\ calls[c].result = << TextContent(calls[c].reply.json) >>

\* get_stock_quote {symbol: AAPL} answered by {"Global Quote": {...}}
C2_Witness ==
    \E c \in DOMAIN calls :
        /\ Done(c) /\ PlainObject(c)
        /\ calls[c].name = "get_stock_quote"
        /\ calls[c].arguments = [symbol |-> PStr("AAPL")]
        /\ calls[c].reply.json =
                JObj(<< Member("Global Quote", ValueOf("Global Quote")) >>)
        /\ calls[c].result[1].text =
                "{\n  \"Global Quote\": {\n    \"01. symbol\": \"AAPL\",\n"
                \o "    \"05. price\": \"150.00\"\n  }\n}"

\* C3: for a parsed JSON object the sentinel keys are checked in the order
\* "Error Message", "Note", "Information"; the first one present decides the
\* error message, the result is only that error, whatever the operation.
C3_SentinelPriority ==
    \A c \in DOMAIN calls :
        Done(c) /\ Parsed(c) /\ calls[c].reply.json.t = "object" =>
            LET P == calls[c].reply.json IN
            /\ HasKey(P, "Error Message") =>
                    calls[c].data = Error("API Error: Invalid API call")
            /\ ~HasKey(P, "Error Message") /\ HasKey(P, "Note") =>
                    calls[c].data = Error("API Limit: Thank you for using Alpha Vantage!")
            /\ ~HasKey(P, "Error Message") /\ ~HasKey(P, "Note")
                    /\ HasKey(P, "Information") =>
                    calls[c].data = Error("API Info: the demo API key")
            /\ (\E k \in SentinelKeys : HasKey(P, k)) =>
                    /\ IsErrorEnvelope(calls[c].data)
                    /\ Serialises(c)

\* a payload that lists "Note" before "Error Message" gives the API Error
C3_Witness ==
    \E c \in DOMAIN calls :
        /\ Done(c) /\ Parsed(c)
        /\ calls[c].reply.json =
                JObj(<< Member("Note", ValueOf("Note")),
                        Member("Error Message", ValueOf("Error Message")) >>)
        /\ calls[c].result[1].text =
                "{\n  \"error\": \"API Error: Invalid API call\"\n}"

Prefixed(d, prefix) ==
    /\ IsErrorEnvelope(d)
    /\ SubSeq(d.items[1].v.s, 1, Len(prefix)) = prefix

\* C4: a failed GET never leaves a call of a cataloged operation with an
\* exception; the result is the error of its category: timeout, HTTP status,
\* or "Request failed" for every other fault.
C4_TransportErrors ==
    \A c \in DOMAIN calls :
        /\ calls[c].pc = "raised" => calls[c].name \notin CatalogNames
        /\ Done(c) =>
            LET r == calls[c].reply
                d == calls[c].data
            IN
            /\ r.kind = "timeout" => d = Error("Request timed out")
            /\ r.kind = "response" /\ r.status_code = 500 =>
                    d = Error("HTTP error: 500")
            /\ r.kind = "response" /\ r.status_code = 404 =>
                    d = Error("HTTP error: 404")
            /\ r.kind = "response" /\ r.status_code = 301 =>
                    d = Error("HTTP error: 301")
            /\ r.kind = "fault" => d = Error("Request failed: " \o r.description)
            /\ r.kind = "response" /\ is_success(r.status_code) /\ ~r.parses =>
                    d = Error("Request failed: " \o r.description)
            /\ Parsed(c) /\ r.json.t \in {"number", "null"} =>
                    Prefixed(d, "Request failed: ")
            /\ Parsed(c) /\ r.json.t \in {"array", "string"}
                    /\ (\E k \in SentinelKeys : In(k, r.json)) =>
                    Prefixed(d, "Request failed: ")

\* a call of a cataloged operation finished after an HTTP 500
C4_Witness ==
    \E c \in DOMAIN calls :
        /\ Done(c)
        /\ calls[c].reply.kind = "response"
        /\ calls[c].reply.status_code = 500
        /\ calls[c].result[1].text = "{\n  \"error\": \"HTTP error: 500\"\n}"

\* C5: a call raises, and returns nothing, exactly when its name is not one
\* of the names handle_list_tools lists, whatever the argument bag.
C5_UnknownOperation ==
    \A c \in DOMAIN calls :
        calls[c].pc # "idle" =>
            /\ calls[c].pc = "raised" <=> calls[c].name \notin CatalogNames
            /\ calls[c].pc = "raised" =>
                    /\ calls[c].result = <<>>
                    /\ calls[c].requests = <<>>
                    /\ calls[c].raised = "Unknown tool: " \o calls[c].name

\* an unknown name is rejected although the bag has a symbol
C5_Witness ==
    \E c \in DOMAIN calls :
        /\ calls[c].pc = "raised"
        /\ calls[c].name = "not_a_real_tool"
        /\ "symbol" \in DOMAIN calls[c].arguments

\* C6 (as stated): a call of an operation whose schema requires `symbol`,
\* with a bag that lacks `symbol`, issues no GET.
C6_MissingSymbolRejected ==
    \A c \in DOMAIN calls :
        /\ calls[c].pc # "idle"
        /\ calls[c].name \in CatalogNames
        /\ "symbol" \in RequiredOf(calls[c].name)
        /\ "symbol" \notin DOMAIN calls[c].arguments
        => calls[c].requests = <<>>

\* C7: the request of get_news_sentiment always has one `limit`, the supplied
\* one or 50; it has `tickers` (`topics`) exactly when a non-empty one is
\* supplied.
C7_NewsParameters ==
    \A c \in DOMAIN calls :
        calls[c].pc = "awaiting" /\ calls[c].name = "get_news_sentiment" =>
            LET bag == calls[c].arguments
                url == calls[c].requests[1]
                given(k) == k \in DOMAIN bag /\ bag[k].s # ""
            IN
            /\ ParamIs(url, "limit",
                       IF "limit" \in DOMAIN bag THEN IntToStr(bag["limit"].n) ELSE "50")
            /\ HasParam(url, "tickers") <=> given("tickers")
            /\ given("tickers") => ParamIs(url, "tickers", bag["tickers"].s)
            /\ HasParam(url, "topics") <=> given("topics")
            /\ given("topics") => ParamIs(url, "topics", bag["topics"].s)

\* get_news_sentiment {} asks for limit=50 and nothing else
C7_Witness ==
    \E c \in DOMAIN calls :
        /\ calls[c].pc = "awaiting"
        /\ calls[c].name = "get_news_sentiment"
        /\ calls[c].arguments = <<>>
        /\ API_KEY = "demo"
        /\ calls[c].requests =
            << "https://www.alphavantage.co/query?function=NEWS_SENTIMENT&apikey=demo&limit=50" >>

\* the call get_news_sentiment {tickers: "AAPL,MSFT", limit: 10}
IsC8Call(c) ==
    /\ calls[c].pc = "awaiting"
    /\ calls[c].name = "get_news_sentiment"
    /\ calls[c].arguments = [tickers |-> PStr("AAPL,MSFT"), limit |-> PInt(10)]

\* C8 (as stated): the query string of that call contains
\* tickers=AAPL,MSFT&limit=10 and no topics.
C8_TickersThenLimit ==
    \A c \in DOMAIN calls :
        IsC8Call(c) =>
            /\ IsSubstring("tickers=AAPL,MSFT&limit=10", calls[c].requests[1])
            /\ ~HasParam(calls[c].requests[1], "topics")

\* C8 (amended): the query string of that call contains
\* limit=10&tickers=AAPL,MSFT (the limit parameter immediately followed by the
\* tickers parameter) and no topics.
C8_LimitThenTickers ==
    \A c \in DOMAIN calls :
        IsC8Call(c) =>
            /\ IsSubstring("limit=10&tickers=AAPL,MSFT", calls[c].requests[1])
            /\ ParamIs(calls[c].requests[1], "limit", "10")
            /\ ParamIs(calls[c].requests[1], "tickers", "AAPL,MSFT")
            /\ ~HasParam(calls[c].requests[1], "topics")

C8_Witness ==
    \E c \in DOMAIN calls :
        /\ IsC8Call(c)
        /\ API_KEY = "K2"
        /\ calls[c].url =
            "https://www.alphavantage.co/query?function=NEWS_SENTIMENT&apikey=K2&limit=10&tickers=AAPL,MSFT"

\* the function identifier the claim gives for each operation
FunctionId(name) ==
    CASE name = "get_stock_quote" -> "GLOBAL_QUOTE"
      [] name = "get_daily_prices" -> "TIME_SERIES_DAILY"
      [] name = "get_income_statement" -> "INCOME_STATEMENT"
      [] name = "get_balance_sheet" -> "BALANCE_SHEET"
      [] name = "get_cash_flow" -> "CASH_FLOW"
      [] name = "get_company_overview" -> "OVERVIEW"
      [] name = "get_news_sentiment" -> "NEWS_SENTIMENT"
      [] name = "get_earnings" -> "EARNINGS"

\* C9: a call of a cataloged operation issues its one GET when it is made,
\* and none after that, whatever the outcome; the GET carries the credential
\* as apikey and the function of the operation, which no other operation has.
C9_OneRequest ==
    [][ \A c \in DOMAIN calls :
        /\ calls[c].pc = "idle" /\ calls'[c].pc # "idle"
                /\ calls'[c].name \in CatalogNames =>
            /\ calls'[c].pc = "awaiting"
            /\ calls'[c].requests = << calls'[c].url >>
            /\ ParamIs(calls'[c].url, "apikey", API_KEY)
            /\ ParamIs(calls'[c].url, "function", FunctionId(calls'[c].name))
            /\ \A m \in CatalogNames \ {calls'[c].name} :
                ~ParamIs(BuildUrl(m, calls'[c].arguments, API_KEY), "function",
                         FunctionId(calls'[c].name))
        /\ calls[c].pc = "awaiting" =>
            /\ calls'[c].pc = "done"
            /\ calls'[c].requests = calls[c].requests
            /\ Len(calls'[c].requests) = 1 ]_vars

\* get_cash_flow finished after a timeout with its one request
C9_Witness ==
    \E c \in DOMAIN calls :
        /\ Done(c)
        /\ calls[c].name = "get_cash_flow"
        /\ calls[c].reply.kind = "timeout"
        /\ API_KEY = "demo"
        /\ calls[c].requests =
            << "https://www.alphavantage.co/query?function=CASH_FLOW&symbol=AAPL&apikey=demo" >>

\* every finished call has the result its own name, bag and reply give
OwnResult ==
    \A c \in DOMAIN calls :
        /\ Issued(c) => calls[c].url = BuildUrl(calls[c].name, calls[c].arguments, API_KEY)
        /\ Done(c) =>
            /\ calls[c].data = make_api_request(calls[c].reply)
            /\ Serialises(c)
        /\ \A d \in DOMAIN calls :
            /\ Done(c) /\ Done(d)
            /\ calls[c].name = calls[d].name
            /\ calls[c].arguments = calls[d].arguments
            /\ calls[c].reply = calls[d].reply
            => calls[c].result = calls[d].result

\* C10: with several calls in flight and replies in any order, a step of one
\* call changes no other call and never the credential, and each result is
\* the one its own name, bag and reply give, equal for equal inputs.
C10_Independent ==
    [][ /\ API_KEY' = API_KEY
        /\ \A c, d \in DOMAIN calls :
            c # d /\ calls'[c] # calls[c] => calls'[d] = calls[d]
        /\ OwnResult' ]_vars

\* two calls with the same name and bag finished with different results,
\* one after a timeout and one after a response
C10_Witness ==
    \E c, d \in DOMAIN calls :
        /\ c # d /\ Done(c) /\ Done(d)
        /\ calls[c].name = calls[d].name
        /\ calls[c].arguments = calls[d].arguments
        /\ calls[c].reply.kind = "timeout"
        /\ calls[d].reply.kind = "response"
        /\ calls[c].result # calls[d].result

====
